---- MODULE Spec2Model ----
(***************************************************************************)
(* Model of the acquisition / spectral-estimation worker of PySpectrogram  *)
(* (src/AudioProcessor.py) together with the part of the GUI that drives   *)
(* it (src/main.py: initiate_processor, stopprocessor, pullsettings,       *)
(* updateUIfinal).                                                         *)
(*                                                                         *)
(* Three execution contexts are modelled, one program counter each:        *)
(*   "gui"    the Qt GUI thread: AudioProcessor.__init__, threadpool.start,*)
(*            the signal connections, then the event loop (STOP button,    *)
(*            settings update, delivery of queued signals);                *)
(*   "worker" the pool thread executing AudioProcessor.run;                *)
(*   "cb"     the PortAudio thread executing updateaudiobuffer.             *)
(* Statements that read or write a shared attribute are separate steps.    *)
(*                                                                         *)
(* Specifications: Spec is one worker with its GUI and its callback;        *)
(* SpecLive is a worker on an existing file with a fair pool thread;       *)
(* SpecCalc and SpecFft call changethresholds and dofft on their own;      *)
(* SpecPace is the pacing wait of a device worker; SpecPool is the GUI's   *)
(* view of all tabs and the thread pool, SpecPoolLive the same with        *)
(* workers that end; SpecTabs closes tabs whose workers still emit;        *)
(* SpecSweep is the sweep of the temporary directory.                      *)
(*                                                                         *)
(* Units: times are integers in ticks of 1/TicksPerSec second, alpha is an *)
(* integer in units of 1/AlphaDen.  df is the exact rational fs/N.         *)
(***************************************************************************)
EXTENDS Integers, Sequences, FiniteSets, TLC

\* ---------------------------------------------------------------- bounds
Fs == 5             \* sampling rate of the source, samples per second
TicksPerSec == 10   \* resolution of the model's time axis
AlphaDen == 10      \* resolution of alpha
InitBufLen == 6     \* length of the zero-filled rolling buffer (100000 in the code, scaled)
MaxLenSignal == 6   \* longest file, in samples
MaxCycles == 1      \* cap on the cycles of the cadence loop of a device source
MaxCallbacks == 1   \* cap on the invocations of the device callback
MaxReconf == 1      \* cap on the settings updates requested by the user
MaxAborts == 1      \* cap on the STOP requests of the user
MaxEnvOps == 2      \* cap on callbacks + settings updates + STOP requests together
MaxCalcCalls == 1   \* cap on the calls of changethresholds made on its own
MaxPolls == 100     \* polls of the startup wait before terminate(3)
MaxThreadCount == 7 \* threadpool.setMaxThreadCount(7)
NumTabs == 8        \* tabs the user has opened

Threads == {"gui", "worker", "cb"}
Tabs == 1..NumTabs

\* user-chosen settings (fftwindow, dt in ticks; alpha in 1/AlphaDen)
LenVals == {2, MaxLenSignal}
FrameCounts == {1}
InitArgs == { <<4, 1, 0>> }
ReconfArgs == { <<TicksPerSec + 5, 2, 5>> }

\* ------------------------------------------------------- pure helpers
\* np.round(num/den): round half to even (den > 0)
Round(num, den) ==
  LET q == num \div den
      r == num % den
  IN  IF 2 * r < den THEN q
      ELSE IF 2 * r > den THEN q + 1
      ELSE IF q % 2 = 0 THEN q ELSE q + 1

\* int(x/2) of Python: truncation toward zero
HalfTrunc(n) == IF n >= 0 THEN n \div 2 ELSE -((-n) \div 2)

Min(a, b) == IF a < b THEN a ELSE b
Max(a, b) == IF a > b THEN a ELSE b

\* Python slice s[a:b] on a list of length Len(s), indices 0-based
PyNorm(k, len) == IF k < 0 THEN Max(k + len, 0) ELSE Min(k, len)
PySlice(s, a, b) ==
  LET lo == PyNorm(a, Len(s))
      hi == PyNorm(b, Len(s))
  IN  IF lo >= hi THEN << >> ELSE SubSeq(s, lo + 1, hi)
\* Python slice s[a:]
PySliceFrom(s, a) ==
  LET lo == PyNorm(a, Len(s))
  IN  IF lo >= Len(s) THEN << >> ELSE SubSeq(s, lo + 1, Len(s))

\* scipy.signal.tukey(M, alpha), identified by its length and alpha
NoTaper == [len |-> -1, alpha |-> -1]
Tukey(M, a) == [len |-> M, alpha |-> a]

\* the exact quotient fs/N
NoDf == [num |-> 0, den |-> 0]
Ratio(n, d) == [num |-> n, den |-> d]

\* first half of calc_settings: N = int(np.round(fs*fftwindow)), made even
RoundN(w) == Round(Fs * w, TicksPerSec)
\* a calc_settings that leaves an odd N as it is
MakeEvenSkipped(n) == n

MakeEven(n) == IF n % 2 = 1 THEN n + 1 ELSE n

\* freqs_all[n] in units of df, n = 0..N-1
FreqAll(n, nn) == IF 2 * n < nn THEN n ELSE n - nn
\* a mask that also keeps the bin at the Nyquist frequency
KeepIndNyquist(nn) == [k \in 1..nn |-> 2 * (k - 1) <= nn]

\* keepind = np.greater_equal(freqs_all, 0)   (df > 0)
KeepInd(nn) == [k \in 1..nn |-> FreqAll(k - 1, nn) >= 0]
\* freqs = freqs_all[keepind], in units of df
RECURSIVE Masked(_, _)
Masked(s, m) ==
  IF s = << >> THEN << >>
  ELSE IF Head(m) THEN <<Head(s)>> \o Masked(Tail(s), Tail(m))
  ELSE Masked(Tail(s), Tail(m))
FreqsOf(nn) == Masked([k \in 1..nn |-> FreqAll(k - 1, nn)], KeepInd(nn))

\* np.arange(0, lensignal/fs, dt): number of grid times k*dt < lensignal/fs
GridLen(len, d) ==
  IF d <= 0 THEN 0
  ELSE LET a == len * TicksPerSec
           b == d * Fs
       IN  (a + b - 1) \div b
GridTime(k, d) == k * d

\* the bytes PortAudio hands to the callback for nframes int16 frames
RECURSIVE FrameBytes(_)
FrameBytes(nf) == IF nf = 0 THEN << >> ELSE <<1, 0>> \o FrameBytes(nf - 1)

\* numpy broadcasting of two 1-d shapes
Broadcastable(a, b) == a = b \/ a = 1 \/ b = 1
BroadcastLen(a, b) == IF a = 1 THEN b ELSE a

NoData == <<-1>>

\* file names are sequences of one-character strings
\* AudioProcessor.py 103: "tempwav_" + str(self.tabID) + '.WAV'
WavFileName(id) ==
  <<"t", "e", "m", "p", "w", "a", "v", "_">> \o <<ToString(id)>> \o <<".", "W", "A", "V">>

\* names other programs, or the user, leave in the directory of gettempdir()
\* (main.py 135): temp.wav, Temp_a.WAV, tempwav, a.wav, temp.txt
OtherNames ==
  { <<"t", "e", "m", "p", ".", "w", "a", "v">>,
    <<"T", "e", "m", "p", "_", "a", ".", "W", "A", "V">>,
    <<"t", "e", "m", "p", "w", "a", "v">>,
    <<"a", ".", "w", "a", "v">>,
    <<"t", "e", "m", "p", ".", "t", "x", "t">> }

\* ---------------------------------------------------------------- state
VARIABLES
  datasource,   \* "file" ('AAA...'), "mic" ('MMM...') or "bad" (anything else)
  fileExists,   \* exists(self.audiofile)
  lensignal,    \* len(self.audiostream) of a file source
  pc,           \* position of each thread
  tsite,        \* call site of the terminate() a thread is executing
  cargs,        \* arguments of the changethresholds() a thread is executing
  isrunning, reason, fromAudio,
  fftwindow, dt, alpha,
  N, df, taper, taperlen, keepind, freqs,
  audiostream,  \* the samples (file: sample numbers 1..lensignal)
  wavfile,      \* self.wavfile: "none" (no attribute), "open", "closed"
  wavframes,    \* bytes written to the recording file
  stream,       \* self.stream: "none" (no attribute), "open", "closed"
  streamActive, \* PortAudio still invokes the callback
  maxnum, griddt,            \* self.maxnum, self.sampletimes (grid step)
  counts, i, curtime, ctime, pcmdata,   \* locals of run()
  ftaper, fdf,               \* values read so far by the dofft() in progress
  nframes, returntype,       \* locals of updateaudiobuffer
  now,          \* utcnow() - starttime, in ticks
  connected,    \* which signals have a slot connected
  isprocessing, \* alltabdata[tab]["isprocessing"]
  pendingFinal, \* queued deliveries of terminated that updateUIfinal has not handled yet
  emitted,      \* every signal emission, in order, with whether a slot was connected
  termCalls,    \* reasons passed to terminate(), in order of the write of self.reason
  unhandled,    \* places where an exception left its function
  midTrimRead,  \* the loop read the tail between the callback's extend and del
  settingsHist, \* the (fftwindow, alpha) pairs changethresholds has stored so far
  cycles, callbacks, reconfs, aborts,
  tabState,     \* per tab: "new", "dialog" (channel selector open), "queued"
                \* (handed to the pool, waiting for a thread), "running", "ended"
  tabProcessing,      \* alltabdata[tab]["isprocessing"] of every tab
  audioWindowOpened,  \* self.audioWindowOpened
  warnedTab,    \* tab of the last start request answered by the pool-full warning
  tabnumbers,   \* self.tabnumbers: the identifiers of the open tabs, in tab order
  tabEmitted,   \* per tab: the signals its worker has emitted from the pool thread
  eventQueue,   \* signals of the workers queued for the GUI thread, oldest first
  tempfiles     \* names of the files in self.tempdir; at first the recording an
                \* earlier run has left

\* the GUI's view of all tabs; no step of a single worker changes it
tabs == <<tabnumbers, tabEmitted, eventQueue>>
pool == <<tabState, tabProcessing, audioWindowOpened, warnedTab, tabs, tempfiles>>
scen == <<datasource, fileExists, lensignal, pool>>
ctl == <<pc, tsite, cargs>>
flags == <<isrunning, reason, fromAudio>>
userset == <<fftwindow, dt, alpha>>
derived == <<N, df, taper, taperlen, keepind, freqs>>
res == <<wavfile, wavframes, stream, streamActive>>
grid == <<maxnum, griddt>>
wloc == <<counts, i, curtime, ctime, pcmdata, ftaper, fdf>>
cbloc == <<nframes, returntype>>
sig == <<connected, isprocessing, pendingFinal, emitted>>
ghost == <<termCalls, unhandled, midTrimRead, settingsHist>>
caps == <<cycles, callbacks, reconfs, aborts>>
EnvOps == callbacks + reconfs + aborts
vars == <<scen, ctl, flags, userset, derived, res, grid, wloc, cbloc, audiostream,
          now, sig, ghost, caps>>

\* AudioProcessor.__init__, lines 83-107, and the state before the dispatch on datasource
Init ==
  /\ datasource \in {"file", "mic", "bad"}
  /\ fileExists \in BOOLEAN
  /\ (datasource # "file" => fileExists)
  /\ lensignal \in (IF datasource = "file" /\ fileExists THEN LenVals ELSE {0})
  /\ pc = [t \in Threads |-> IF t = "gui" THEN "ctor" ELSE IF t = "worker" THEN "unstarted" ELSE "idle"]
  /\ tsite = [t \in Threads |-> "none"]
  /\ cargs = [t \in Threads |-> <<0, 0, 0>>]
  /\ isrunning = FALSE /\ reason = 0 /\ fromAudio = FALSE
  /\ \E s \in InitArgs : fftwindow = s[1] /\ dt = s[2] /\ alpha = s[3]
  /\ N = 0 /\ df = NoDf /\ taper = NoTaper /\ taperlen = -1 /\ keepind = << >> /\ freqs = << >>
  /\ audiostream = << >>
  /\ wavfile = "none" /\ wavframes = 0 /\ stream = "none" /\ streamActive = FALSE
  /\ maxnum = 0 /\ griddt = 0
  /\ counts = 0 /\ i = -1 /\ curtime = 0 /\ ctime = 0 /\ pcmdata = NoData
  /\ ftaper = NoTaper /\ fdf = NoDf
  /\ nframes = 0 /\ returntype = "unbound"
  /\ now = 0
  /\ connected = [k \in {"iterated", "statsupdated", "terminated"} |-> FALSE]
  /\ isprocessing = FALSE
  /\ pendingFinal = 0 /\ emitted = << >>
  /\ termCalls = << >> /\ unhandled = {} /\ midTrimRead = FALSE /\ settingsHist = {}
  /\ cycles = 0 /\ callbacks = 0 /\ reconfs = 0 /\ aborts = 0
  /\ tabState = [t \in Tabs |-> "new"]
  /\ tabProcessing = [t \in Tabs |-> FALSE]
  /\ audioWindowOpened = FALSE /\ warnedTab = 0
  /\ tabnumbers = [k \in 1..NumTabs |-> k] /\ eventQueue = << >>
  /\ tabEmitted = [t \in Tabs |-> 0]
  /\ tempfiles = {WavFileName(1)}

\* ------------------------------------------------------------- events
TermEv(r) == [kind |-> "terminated", reason |-> r]
RecEv(idx, t, psd) == [kind |-> "iterated", i |-> idx, ctime |-> t, psd |-> psd]
StatsEv(n, d, f) == [kind |-> "statsupdated", N |-> n, df |-> d, freqs |-> f]

\* pyqtSignal.emit from thread t.  The emission reaches the sink only when a
\* slot is connected at that moment (conn).  Emitted on the GUI thread the slot
\* runs at once (direct connection); emitted on another thread the call is
\* queued for the GUI event loop.  Of the three slots only updateUIfinal
\* (main.py 805-809) changes modelled state: it clears isprocessing.
Emit(t, ev) ==
  /\ emitted' = Append(emitted, [ev |-> ev, conn |-> connected[ev.kind]])
  /\ connected' = connected
  /\ IF connected[ev.kind] /\ ev.kind = "terminated"
       THEN IF t = "gui"
              THEN isprocessing' = FALSE /\ pendingFinal' = pendingFinal
              ELSE pendingFinal' = pendingFinal + 1 /\ isprocessing' = isprocessing
       ELSE UNCHANGED <<isprocessing, pendingFinal>>

Goto(t, p) == pc' = [pc EXCEPT ![t] = p]

\* ------------------------------------------------- exception propagation
InTerminate(t) == pc[t] \in {"term_set", "term_wav", "term_stream", "term_emit"}
\* the worker is inside the try block of run(), lines 210-252
InTry(t) ==
  \/ pc[t] \in {"loop_test", "fft_taper", "fft_df", "loop_pace"}
  \/ InTerminate(t) /\ tsite[t] = "run_exhaust"
InCtor(t) ==
  \/ pc[t] \in {"ctor", "ctor_copy", "ctor_done"}
  \/ InTerminate(t) /\ tsite[t] \in {"ctor_file", "ctor_bad"}

\* where control goes when the current statement of thread t raises
HandlerPc(t) ==
  IF t = "gui" THEN (IF InCtor(t) THEN "ctor_failed" ELSE "idle")
  ELSE IF t = "worker" THEN (IF InTry(t) THEN "exc_flag" ELSE "crashed")
  ELSE "idle"
\* the function the exception leaves unhandled, if any
Escapes(t) ==
  IF t = "gui" THEN (IF InCtor(t) THEN {"__init__"}
                     ELSE IF InTerminate(t) THEN {"abort"} ELSE {"changethresholds"})
  ELSE IF t = "worker" THEN (IF InTry(t) THEN {} ELSE {"run"})
  ELSE (IF InTerminate(t) THEN {"updateaudiobuffer"} ELSE {})
\* statement of thread t raises; everything else is left as it is
Raise(t) ==
  /\ Goto(t, HandlerPc(t))
  /\ unhandled' = unhandled \cup Escapes(t)

\* ---------------------------------------------------- terminate(reason)
ReasonOf(site) ==
  CASE site = "ctor_file" -> 1
    [] site = "ctor_bad" -> 1
    [] site = "abort" -> 0
    [] site = "run_timeout" -> 3
    [] site = "run_open" -> 2
    [] site = "run_exhaust" -> 0
    [] site = "run_exc" -> 4
    [] site = "cb_exc" -> 5
    [] OTHER -> -1

\* the statement after the call
TermReturn(site) ==
  CASE site = "ctor_file" -> "ctor_copy"
    [] site = "ctor_bad" -> "ctor_done"
    [] site = "abort" -> "stop_done"
    [] site = "run_open" -> "loop_test"
    [] site = "cb_exc" -> "cb_ret"
    [] OTHER -> "done"

Call(t, site) ==
  /\ pc' = [pc EXCEPT ![t] = "term_set"]
  /\ tsite' = [tsite EXCEPT ![t] = site]

\* lines 344-345: self.reason = reason; self.isrunning = False
TermSet(t) ==
  /\ pc[t] = "term_set"
  /\ reason' = ReasonOf(tsite[t])
  /\ isrunning' = FALSE
  /\ termCalls' = Append(termCalls, ReasonOf(tsite[t]))
  /\ Goto(t, "term_wav")
  /\ UNCHANGED <<scen, tsite, cargs, fromAudio, userset, derived, res, grid, wloc,
                 cbloc, audiostream, now, sig, unhandled, midTrimRead, settingsHist, caps>>

\* lines 348-349: if not self.fromAudio: wave.Wave_write.close(self.wavfile)
\* (AttributeError when the attribute was never set; closing twice is a no-op)
TermWav(t) ==
  /\ pc[t] = "term_wav"
  /\ IF fromAudio
       THEN Goto(t, "term_emit") /\ UNCHANGED <<wavfile, unhandled>>
     ELSE IF wavfile = "none"
       THEN Raise(t) /\ UNCHANGED wavfile
     ELSE wavfile' = "closed" /\ Goto(t, "term_stream") /\ UNCHANGED unhandled
  /\ UNCHANGED <<scen, tsite, cargs, flags, userset, derived, wavframes, stream, streamActive,
                 grid, wloc, cbloc, audiostream, now, sig, termCalls, midTrimRead, settingsHist, caps>>

\* lines 350-351: self.stream.stop_stream(); self.stream.close()
\* AttributeError when self.stream was never assigned.  On a stream that is
\* already closed PyAudio either raises or does nothing, depending on its version.
TermStream(t) ==
  /\ pc[t] = "term_stream"
  /\ \/ /\ stream = "none"
        /\ Raise(t) /\ UNCHANGED <<stream, streamActive>>
     \/ /\ stream = "closed"
        /\ \/ Raise(t)
           \/ Goto(t, "term_emit") /\ UNCHANGED unhandled
        /\ UNCHANGED <<stream, streamActive>>
     \/ /\ stream = "open"
        /\ stream' = "closed"
        /\ streamActive' = FALSE
        /\ Goto(t, "term_emit") /\ UNCHANGED unhandled
  /\ UNCHANGED <<scen, tsite, cargs, flags, userset, derived, wavfile, wavframes,
                 grid, wloc, cbloc, audiostream, now, sig, termCalls, midTrimRead, settingsHist, caps>>

\* line 354: self.signals.terminated.emit(self.tabID, reason)
TermEmit(t) ==
  /\ pc[t] = "term_emit"
  /\ Emit(t, TermEv(ReasonOf(tsite[t])))
  /\ Goto(t, TermReturn(tsite[t]))
  /\ UNCHANGED <<scen, tsite, cargs, flags, userset, derived, res, grid, wloc, cbloc,
                 audiostream, now, ghost, caps>>

\* ------------------------------------------- AudioProcessor.__init__
\* lines 108-114, 127-134 and 142-143: dispatch on the prefix of datasource
CtorSource ==
  /\ pc["gui"] = "ctor"
  /\ CASE datasource = "file" ->
            /\ fromAudio' = TRUE
            /\ IF fileExists THEN Goto("gui", "ctor_copy") /\ UNCHANGED tsite
                             ELSE Call("gui", "ctor_file")
            /\ UNCHANGED <<audiostream, wavfile>>
       [] datasource = "mic" ->
            /\ fromAudio' = FALSE
            /\ audiostream' = [k \in 1..InitBufLen |-> 0]
            /\ wavfile' = "open"
            /\ Goto("gui", "ctor_done") /\ UNCHANGED tsite
       [] OTHER ->
            /\ Call("gui", "ctor_bad")
            /\ UNCHANGED <<fromAudio, audiostream, wavfile>>
  /\ UNCHANGED <<scen, cargs, isrunning, reason, userset, derived, wavframes, stream,
                 streamActive, grid, wloc, cbloc, now, sig, ghost, caps>>

\* a constructor in which the copy and the read of a missing file do not raise
CtorCopyNoRaise ==
  /\ pc["gui"] = "ctor_copy"
  /\ audiostream' = IF fileExists THEN [k \in 1..lensignal |-> k] ELSE << >>
  /\ Goto("gui", "ctor_done")
  /\ UNCHANGED <<scen, tsite, cargs, flags, userset, derived, res, grid, wloc, cbloc,
                 now, sig, ghost, caps>>

\* lines 116-124: shcopy raises FileNotFoundError for a missing file; otherwise
\* the file is read and the channel selected
CtorCopy ==
  /\ pc["gui"] = "ctor_copy"
  /\ IF fileExists
       THEN /\ audiostream' = [k \in 1..lensignal |-> k]
            /\ Goto("gui", "ctor_done") /\ UNCHANGED unhandled
       ELSE Raise("gui") /\ UNCHANGED audiostream
  /\ UNCHANGED <<scen, tsite, cargs, flags, userset, derived, res, grid, wloc, cbloc,
                 now, sig, termCalls, midTrimRead, settingsHist, caps>>

\* line 145: self.isrunning = True
CtorDone ==
  /\ pc["gui"] = "ctor_done"
  /\ isrunning' = TRUE
  /\ Goto("gui", "pool_start")
  /\ UNCHANGED <<scen, tsite, cargs, reason, fromAudio, userset, derived, res, grid, wloc,
                 cbloc, audiostream, now, sig, ghost, caps>>

\* ----------------------------------- RunProgram.initiate_processor
\* main.py 710: self.threadpool.start(Processor)
PoolStart ==
  /\ pc["gui"] = "pool_start"
  /\ pc' = [pc EXCEPT !["gui"] = "connect", !["worker"] = "run_wait"]
  /\ UNCHANGED <<scen, tsite, cargs, flags, userset, derived, res, grid, wloc, cbloc,
                 audiostream, now, sig, ghost, caps>>

\* main.py 713-716: the three connect() calls, then isprocessing = True
ConnectSlots ==
  /\ pc["gui"] = "connect"
  /\ connected' = [k \in DOMAIN connected |-> TRUE]
  /\ isprocessing' = TRUE
  /\ Goto("gui", "idle")
  /\ UNCHANGED <<scen, tsite, cargs, flags, userset, derived, res, grid, wloc, cbloc,
                 audiostream, now, pendingFinal, emitted, ghost, caps>>

\* --------------------------------------------------- GUI event loop
\* the queued terminated signal is delivered to updateUIfinal (main.py 805-809)
Deliver ==
  /\ pc["gui"] = "idle"
  /\ pendingFinal > 0
  /\ pendingFinal' = pendingFinal - 1
  /\ isprocessing' = FALSE
  /\ UNCHANGED <<scen, ctl, flags, userset, derived, res, grid, wloc, cbloc, audiostream,
                 now, connected, emitted, ghost, caps>>

\* main.py 720-723: stopprocessor -> Processor.abort() -> terminate(0)
StopProcessor ==
  /\ pc["gui"] = "idle"
  /\ isprocessing
  /\ aborts < MaxAborts
  /\ EnvOps < MaxEnvOps
  /\ aborts' = aborts + 1
  /\ Call("gui", "abort")
  /\ UNCHANGED <<scen, cargs, flags, userset, derived, res, grid, wloc, cbloc, audiostream,
                 now, sig, ghost, cycles, callbacks, reconfs>>

\* main.py 724: isprocessing = False
StopDone ==
  /\ pc["gui"] = "stop_done"
  /\ isprocessing' = FALSE
  /\ Goto("gui", "idle")
  /\ UNCHANGED <<scen, tsite, cargs, flags, userset, derived, res, grid, wloc, cbloc,
                 audiostream, now, connected, pendingFinal, emitted, ghost, caps>>

\* main.py 497-531: updatecurtabsettings -> pullsettings -> changethresholds_slot
UpdateSettings ==
  /\ pc["gui"] = "idle"
  /\ isprocessing
  /\ reconfs < MaxReconf
  /\ EnvOps < MaxEnvOps
  /\ reconfs' = reconfs + 1
  /\ \E a \in ReconfArgs : cargs' = [cargs EXCEPT !["gui"] = a]
  /\ Goto("gui", "ct_set")
  /\ UNCHANGED <<scen, tsite, flags, userset, derived, res, grid, wloc, cbloc, audiostream,
                 now, sig, ghost, cycles, callbacks, aborts>>

\* ------------------------------------ changethresholds / calc_settings
\* lines 318-330: fftwindow clamped from above, dt stored as given, alpha
\* clamped to [0, 1]
CtAssign(t) ==
  /\ pc[t] = "ct_set"
  /\ fftwindow' = IF cargs[t][1] <= TicksPerSec THEN cargs[t][1] ELSE TicksPerSec
  /\ dt' = cargs[t][2]
  /\ alpha' = IF cargs[t][3] > AlphaDen THEN AlphaDen
              ELSE IF cargs[t][3] < 0 THEN 0 ELSE cargs[t][3]
  /\ settingsHist' = settingsHist \cup
       {<<IF cargs[t][1] <= TicksPerSec THEN cargs[t][1] ELSE TicksPerSec,
          IF cargs[t][3] > AlphaDen THEN AlphaDen ELSE IF cargs[t][3] < 0 THEN 0 ELSE cargs[t][3]>>}
  /\ Goto(t, "cs_N")
  /\ UNCHANGED <<scen, tsite, cargs, flags, derived, res, grid, wloc, cbloc,
                 audiostream, now, sig, termCalls, unhandled, midTrimRead, caps>>

\* lines 288-298: self.N = int(np.round(self.fs*self.fftwindow)), plus 1 when
\* odd; the taper and its length, or taperlen = 0 when alpha is 0
\* (tukey raises ValueError for a negative length)
CsWindow(t) ==
  /\ pc[t] = "cs_N"
  /\ N' = MakeEven(RoundN(fftwindow))
  /\ IF alpha > 0
       THEN IF MakeEven(RoundN(fftwindow)) < 0
              THEN Raise(t) /\ UNCHANGED <<taper, taperlen>>
              ELSE /\ taper' = Tukey(MakeEven(RoundN(fftwindow)), alpha)
                   /\ taperlen' = MakeEven(RoundN(fftwindow))
                   /\ Goto(t, "cs_df")
                   /\ UNCHANGED unhandled
       ELSE /\ taperlen' = 0
            /\ Goto(t, "cs_df")
            /\ UNCHANGED <<taper, unhandled>>
  /\ UNCHANGED <<scen, tsite, cargs, flags, userset, df, keepind, freqs, res,
                 grid, wloc, cbloc, audiostream, now, sig, termCalls, midTrimRead, settingsHist, caps>>

\* line 300: self.df = self.fs/self.N   (ZeroDivisionError when N is 0)
CsDf(t) ==
  /\ pc[t] = "cs_df"
  /\ IF N = 0
       THEN Raise(t) /\ UNCHANGED df
       ELSE df' = Ratio(Fs, N) /\ Goto(t, "cs_keep") /\ UNCHANGED unhandled
  /\ UNCHANGED <<scen, tsite, cargs, flags, userset, N, taper, taperlen, keepind, freqs, res,
                 grid, wloc, cbloc, audiostream, now, sig, termCalls, midTrimRead, settingsHist, caps>>

\* lines 301-302: freqs_all and keepind
CsKeep(t) ==
  /\ pc[t] = "cs_keep"
  /\ keepind' = KeepInd(N)
  /\ Goto(t, "cs_emit")
  /\ UNCHANGED <<scen, tsite, cargs, flags, userset, N, df, taper, taperlen, freqs, res,
                 grid, wloc, cbloc, audiostream, now, sig, ghost, caps>>

\* lines 303-305: self.freqs = self.freqs_all[self.keepind];
\* statsupdated.emit(tabID, fs, df, N, freqs); then back to the caller
CsEmit(t) ==
  /\ pc[t] = "cs_emit"
  /\ freqs' = FreqsOf(Len(keepind))
  /\ Emit(t, StatsEv(N, df, FreqsOf(Len(keepind))))
  /\ Goto(t, IF t = "worker" THEN "run_src" ELSE "idle")
  /\ UNCHANGED <<scen, tsite, cargs, flags, userset, N, df, taper, taperlen, keepind, res,
                 grid, wloc, cbloc, audiostream, now, ghost, caps>>

\* ------------------------------------------------ AudioProcessor.run
\* lines 154-162: one evaluation of the startup wait
RunWait ==
  /\ pc["worker"] = "run_wait"
  /\ IF isrunning
       THEN Goto("worker", "run_chk") /\ UNCHANGED <<counts, tsite>>
       ELSE /\ counts' = counts + 1
            /\ IF reason # 0 THEN Goto("worker", "done") /\ UNCHANGED tsite
               ELSE IF counts + 1 > MaxPolls THEN Call("worker", "run_timeout")
               ELSE Goto("worker", "run_wait") /\ UNCHANGED tsite
  /\ UNCHANGED <<scen, cargs, flags, userset, derived, res, grid, i, curtime, ctime, pcmdata,
                 ftaper, fdf, cbloc, audiostream, now, sig, ghost, caps>>

\* lines 164-170: if self.reason: return; changethresholds(self.fftwindow, self.dt, self.alpha)
RunCheck ==
  /\ pc["worker"] = "run_chk"
  /\ IF reason # 0
       THEN Goto("worker", "done") /\ UNCHANGED cargs
       ELSE /\ cargs' = [cargs EXCEPT !["worker"] = <<fftwindow, dt, alpha>>]
            /\ Goto("worker", "ct_set")
  /\ UNCHANGED <<scen, tsite, flags, userset, derived, res, grid, wloc, cbloc,
                 audiostream, now, sig, ghost, caps>>

\* lines 172-174: the fixed time grid of a file source
RunGrid ==
  /\ pc["worker"] = "run_src"
  /\ fromAudio
  /\ griddt' = dt
  /\ maxnum' = GridLen(lensignal, dt)
  /\ Goto("worker", "loop_test")
  /\ UNCHANGED <<scen, tsite, cargs, flags, userset, derived, res, wloc, cbloc,
                 audiostream, now, sig, ghost, caps>>

\* lines 177-206: maxnum = 0 and the device stream is opened; when pyaudio.Stream
\* raises, self.stream is not assigned and the handler calls terminate(2)
RunOpen ==
  /\ pc["worker"] = "run_src"
  /\ ~fromAudio
  /\ maxnum' = 0
  /\ \/ /\ stream' = "open"
        /\ streamActive' = TRUE
        /\ Goto("worker", "loop_test") /\ UNCHANGED tsite
     \/ /\ Call("worker", "run_open")
        /\ UNCHANGED <<stream, streamActive>>
  /\ UNCHANGED <<scen, cargs, flags, userset, derived, wavfile, wavframes, griddt, wloc,
                 cbloc, audiostream, now, sig, ghost, caps>>

\* a loop that does not advance its iteration counter
NextIndexStuck(idx) == idx

\* line 215: i += 1
NextIndex(idx) == idx + 1

\* a file read that does not test the edges of the file
FileWindowNoEdge(t) ==
  LET ctrind == Round(t * Fs, TicksPerSec)
      pmind == HalfTrunc(N)
  IN  PySlice(audiostream, ctrind - pmind, ctrind + pmind)

\* the window a file source yields around grid time t (lines 230-236)
FileWindow(t) ==
  LET ctrind == Round(t * Fs, TicksPerSec)
      pmind == HalfTrunc(N)
  IN  IF ctrind - pmind >= 0 /\ ctrind + pmind < lensignal
        THEN PySlice(audiostream, ctrind - pmind, ctrind + pmind)
        ELSE NoData

\* a cycle that goes on to the next loop test without waiting
PaceTargetNoWait(elapsed) == "loop_test"

\* lines 247-252, the test of the pacing wait: a file source sleeps 0.08 s and
\* goes on; a device source waits while less than dt has elapsed since curtime
PaceTarget(elapsed) ==
  IF fromAudio \/ ~(elapsed < dt) THEN "loop_test" ELSE "loop_pace"

\* where the cycle goes once the window is there: line 243 `if pcmdata is not
\* None`, line 267 `if self.alpha > 0`
AfterRead(data) ==
  IF data = NoData THEN PaceTarget(0) ELSE IF alpha > 0 THEN "fft_taper" ELSE "fft_df"

\* a loop test that does not look at the stop flag
LoopTestIgnoresFlag(running) == TRUE

\* line 214: while self.isrunning
LoopTest(running) == running

\* lines 214-243 and 267: while self.isrunning: i += 1; curtime = utcnow(); the
\* sample window is read (file: around grid time i, or terminate(0) past the end
\* of the grid; device: the last N entries of the rolling buffer).  The reads of
\* isrunning, N, audiostream and alpha are taken at one instant: alpha is
\* written before N by changethresholds, so every pair of values that separate
\* reads can see is also seen by the joint read.  The loop of a file source ends
\* by itself at the end of the grid; only that of a device source is capped.
LoopCycle ==
  /\ pc["worker"] = "loop_test"
  /\ LoopTest(isrunning)
  /\ (fromAudio \/ cycles < MaxCycles)
  /\ cycles' = cycles + 1
  /\ i' = NextIndex(i)
  /\ curtime' = now
  /\ ftaper' = NoTaper /\ fdf' = NoDf
  /\ IF fromAudio
       THEN IF NextIndex(i) < maxnum
              THEN /\ ctime' = GridTime(NextIndex(i), griddt)
                   /\ pcmdata' = FileWindow(GridTime(NextIndex(i), griddt))
                   /\ Goto("worker", AfterRead(FileWindow(GridTime(NextIndex(i), griddt))))
                   /\ UNCHANGED <<tsite, midTrimRead>>
              ELSE /\ Call("worker", "run_exhaust")
                   /\ UNCHANGED <<ctime, pcmdata, midTrimRead>>
       ELSE /\ ctime' = now
            /\ pcmdata' = PySliceFrom(audiostream, -N)
            /\ midTrimRead' = (midTrimRead \/ pc["cb"] = "cb_del")
            /\ Goto("worker", AfterRead(PySliceFrom(audiostream, -N)))
            /\ UNCHANGED tsite
  /\ UNCHANGED <<scen, cargs, flags, userset, derived, res, grid, counts, cbloc,
                 audiostream, now, sig, termCalls, unhandled, settingsHist, callbacks, reconfs, aborts>>

\* line 214: the loop ends when isrunning is False
LoopExit ==
  /\ pc["worker"] = "loop_test"
  /\ ~LoopTest(isrunning)
  /\ Goto("worker", "done")
  /\ UNCHANGED <<scen, tsite, cargs, flags, userset, derived, res, grid, wloc, cbloc,
                 audiostream, now, sig, ghost, caps>>

\* lines 268-272: the cached taper when its length is that of the window,
\* otherwise self.taper = tukey(len, alpha) (taperlen is left as it is); then
\* pcmdata*self.taper (AttributeError without a taper, ValueError when the
\* shapes cannot be broadcast).  taperlen and taper are read at one instant:
\* calc_settings writes them in the opposite order.
FftTaper ==
  /\ pc["worker"] = "fft_taper"
  /\ LET tp == IF Len(pcmdata) = taperlen THEN taper ELSE Tukey(Len(pcmdata), alpha)
     IN  IF tp = NoTaper \/ ~Broadcastable(Len(pcmdata), tp.len)
           THEN Raise("worker") /\ UNCHANGED <<ftaper, taper>>
           ELSE /\ taper' = tp
                /\ ftaper' = tp
                /\ Goto("worker", "fft_df")
                /\ UNCHANGED unhandled
  /\ UNCHANGED <<scen, tsite, cargs, flags, userset, N, df, taperlen, keepind, freqs, res,
                 grid, counts, i, curtime, ctime, pcmdata, fdf, cbloc, audiostream, now,
                 sig, termCalls, midTrimRead, settingsHist, caps>>

\* the spectrum dofft returns, identified by what it was computed from
Psd(data, tp, d, keep) ==
  [data |-> data, taper |-> tp, df |-> d,
   bins |-> Masked([k \in 1..Len(keep) |-> k - 1], keep)]
SpectraLen(data, tp) == IF tp = NoTaper THEN Len(data) ELSE BroadcastLen(Len(data), tp.len)

\* lines 275-281 and 245: spectra = |fft|^2/self.df; spectra[self.keepind]
\* (IndexError when the mask has another length than the spectrum); then
\* iterated.emit(i, maxnum, tabID, ctime, spectra) and the first test of the
\* pacing wait
FftSpectrumEmit ==
  /\ pc["worker"] = "fft_df"
  /\ fdf' = df
  /\ IF Len(keepind) # SpectraLen(pcmdata, ftaper)
       THEN /\ Raise("worker")
            /\ UNCHANGED sig
       ELSE /\ Emit("worker", RecEv(i, ctime, Psd(pcmdata, ftaper, df, keepind)))
            /\ Goto("worker", PaceTarget(0))
            /\ UNCHANGED unhandled
  /\ UNCHANGED <<scen, tsite, cargs, flags, userset, derived, res, grid, counts, i, curtime,
                 ctime, pcmdata, ftaper, cbloc, audiostream, now, termCalls, midTrimRead,
                 settingsHist, caps>>

\* lines 251-252: one sleep(0.1) of the pacing wait of a device source, and the
\* test that follows it
LoopPace ==
  /\ pc["worker"] = "loop_pace"
  /\ now' = now + 1
  /\ Goto("worker", PaceTarget(now + 1 - curtime))
  /\ UNCHANGED <<scen, tsite, cargs, flags, userset, derived, res, grid, wloc, cbloc,
                 audiostream, sig, ghost, caps>>

\* lines 255-257: except Exception: self.isrunning = False; self.terminate(4)
LoopExcept ==
  /\ pc["worker"] = "exc_flag"
  /\ isrunning' = FALSE
  /\ Call("worker", "run_exc")
  /\ UNCHANGED <<scen, cargs, reason, fromAudio, userset, derived, res, grid, wloc, cbloc,
                 audiostream, now, sig, ghost, caps>>

\* ------------------------------------------------ updateaudiobuffer
\* PortAudio invokes the callback with the bytes of nf frames.
\* lines 183-184, 188-189: if self.isrunning: self.audiostream.extend(bufferdata[:])
\* (one list entry per byte) else returntype = paAbort, which ends the stream
CbInvoke ==
  /\ pc["cb"] = "idle"
  /\ streamActive
  /\ callbacks < MaxCallbacks
  /\ EnvOps < MaxEnvOps
  /\ callbacks' = callbacks + 1
  /\ \E nf \in FrameCounts :
       /\ nframes' = nf
       /\ IF isrunning
            THEN /\ audiostream' = audiostream \o FrameBytes(nf)
                 /\ returntype' = "unbound"
                 /\ Goto("cb", "cb_del")
                 /\ UNCHANGED streamActive
            ELSE /\ returntype' = "abort"
                 /\ streamActive' = FALSE
                 /\ UNCHANGED <<audiostream, pc>>
  /\ UNCHANGED <<scen, tsite, cargs, flags, userset, derived, wavfile, wavframes, stream,
                 grid, wloc, now, sig, ghost, cycles, reconfs, aborts>>

\* a write that drops the data
WrittenNothing(nf) == 0

\* line 186: writeframes(self.wavfile, bytearray(bufferdata)): the bytes appended
\* to the recording file
Written(nf) == Len(FrameBytes(nf))

\* lines 185-187, 190-195: del self.audiostream[:nframes]; writeframes raises on
\* a closed file and the handler calls terminate(5); otherwise
\* returntype = paContinue and the callback returns
CbTrimWrite ==
  /\ pc["cb"] = "cb_del"
  /\ audiostream' = PySliceFrom(audiostream, nframes)
  /\ IF wavfile = "open"
       THEN /\ wavframes' = wavframes + Written(nframes)
            /\ returntype' = "continue"
            /\ Goto("cb", "idle")
            /\ UNCHANGED tsite
       ELSE /\ Call("cb", "cb_exc")
            /\ UNCHANGED <<wavframes, returntype>>
  /\ UNCHANGED <<scen, cargs, flags, userset, derived, wavfile, stream, streamActive, grid,
                 wloc, nframes, now, sig, ghost, caps>>

\* lines 193-195 after terminate(5): returntype = paAbort; return (None, returntype)
CbAbortReturn ==
  /\ pc["cb"] = "cb_ret"
  /\ returntype' = "abort"
  /\ streamActive' = FALSE
  /\ Goto("cb", "idle")
  /\ UNCHANGED <<scen, tsite, cargs, flags, userset, derived, wavfile, wavframes, stream,
                 grid, wloc, nframes, audiostream, now, sig, ghost, caps>>

\* ----------------------------------------------------- specification
Terminate(t) ==
  \/ TermSet(t) \/ TermWav(t) \/ TermStream(t) \/ TermEmit(t)

ChangeThresholds(t) ==
  \/ CtAssign(t)
  \/ CsWindow(t) \/ CsDf(t) \/ CsKeep(t) \/ CsEmit(t)

Next ==
  \/ CtorSource \/ CtorCopy \/ CtorDone
  \/ PoolStart \/ ConnectSlots
  \/ Deliver \/ StopProcessor \/ StopDone \/ UpdateSettings
  \/ RunWait \/ RunCheck \/ RunGrid \/ RunOpen
  \/ LoopCycle \/ LoopExit \/ FftTaper \/ FftSpectrumEmit
  \/ LoopPace \/ LoopExcept
  \/ CbInvoke \/ CbTrimWrite \/ CbAbortReturn
  \/ \E t \in Threads : Terminate(t)
  \/ \E t \in {"gui", "worker"} : ChangeThresholds(t)

Spec == Init /\ [][Next]_vars

\* ------------------------------------- the worker pool (src/main.py)
\* everything that belongs to the single worker modelled above
single == <<datasource, fileExists, lensignal, ctl, flags, userset, derived, res, grid,
            wloc, cbloc, audiostream, now, sig, ghost, caps>>

\* QThreadPool.activeThreadCount(): the runnables that occupy a thread
ActiveThreadCount == Cardinality({ t \in Tabs : tabState[t] = "running" })

\* a start test that lets one request too many through
AtCapOffByOne(active) == active > MaxThreadCount

\* main.py 616: self.threadpool.activeThreadCount() + 1 > self.threadpool.maxThreadCount()
AtCap(active) == active + 1 > MaxThreadCount

\* the tab whose START button is pressed next: tabs are interchangeable, so
\* they are taken in the order of their numbers
NextNewTab(t) == tabState[t] = "new" /\ \A u \in Tabs : u < t => tabState[u] # "new"

\* main.py 679-717, initiate_processor: the worker is built and handed to
\* QThreadPool.start, which runs it at once when a thread is free and queues it
\* otherwise; isprocessing = True
InitiateProcessor(t) ==
  /\ tabState' = [tabState EXCEPT ![t] =
        IF ActiveThreadCount < MaxThreadCount THEN "running" ELSE "queued"]
  /\ tabProcessing' = [tabProcessing EXCEPT ![t] = TRUE]

\* main.py 614-666, startprocessor on tab t.  With the pool full: the warning
\* and nothing else.  Otherwise a device source or a one-channel file starts a
\* worker at once, a file with several channels opens the channel selector
\* (a cancelled file dialog, and a selector that is already open, change nothing).
StartProcessor(t) ==
  /\ NextNewTab(t)
  /\ IF AtCap(ActiveThreadCount)
       THEN /\ warnedTab' = t
            /\ UNCHANGED <<tabState, tabProcessing, audioWindowOpened>>
       ELSE /\ \/ InitiateProcessor(t) /\ UNCHANGED audioWindowOpened
               \/ /\ ~audioWindowOpened
                  /\ audioWindowOpened' = TRUE
                  /\ tabState' = [tabState EXCEPT ![t] = "dialog"]
                  /\ UNCHANGED tabProcessing
            /\ UNCHANGED warnedTab
  /\ UNCHANGED <<tabs, tempfiles, single>>

\* main.py 671-675, audioWindowClosed with a channel chosen: the worker is
\* started without a second look at the pool
AudioWindowClosed(t) ==
  /\ tabState[t] = "dialog"
  /\ audioWindowOpened' = FALSE
  /\ InitiateProcessor(t)
  /\ UNCHANGED <<warnedTab, tabs, tempfiles, single>>

\* main.py 720-724, stopprocessor on tab t: abort() and isprocessing = False;
\* the thread is released only when run() returns
StopTab(t) ==
  /\ tabProcessing[t]
  /\ tabProcessing' = [tabProcessing EXCEPT ![t] = FALSE]
  /\ UNCHANGED <<tabState, audioWindowOpened, warnedTab, tabs, tempfiles, single>>

\* run() of the worker of tab t returns (AudioProcessor.py 150-259): its thread
\* is free and the pool starts a queued worker if there is one; the terminated
\* notification is handled by updateUIfinal (main.py 805-809)
WorkerEnds(t) ==
  /\ tabState[t] = "running"
  /\ \/ /\ \A u \in Tabs : tabState[u] # "queued"
        /\ tabState' = [tabState EXCEPT ![t] = "ended"]
     \/ \E u \in Tabs :
          /\ tabState[u] = "queued"
          /\ tabState' = [tabState EXCEPT ![t] = "ended", ![u] = "running"]
  /\ tabProcessing' = [tabProcessing EXCEPT ![t] = FALSE]
  /\ UNCHANGED <<audioWindowOpened, warnedTab, tabs, tempfiles, single>>

PoolInit == Init /\ datasource = "mic"

PoolNext ==
  \E t \in Tabs : StartProcessor(t) \/ AudioWindowClosed(t) \/ StopTab(t) \/ WorkerEnds(t)

SpecPool == PoolInit /\ [][PoolNext]_vars

\* -------------------------------------------- the pool, workers that end
\* SpecPool with every running worker ending at some time: run() returns after
\* a stop, an exhausted file or a failure (AudioProcessor.py 214, 254-259), and
\* the pool then has a free thread.
SpecPoolLive == PoolInit /\ [][PoolNext]_vars /\ WF_vars(\E t \in Tabs : WorkerEnds(t))

\* ------------------------------------------- tabs that are closed
\* SpecTabs: the GUI thread starts workers on the first UsedTabs tabs, closes
\* tabs and handles the signals the pool threads have queued for it.  Every
\* signal is taken as emitted with its slot connected.
UsedTabs == 2       \* tabs the user starts a worker on or closes
MaxTabEvents == 2   \* signals one worker emits before it ends
MaxQueued == 2      \* signals waiting for the GUI thread

Range(s) == { s[k] : k \in 1..Len(s) }
\* list.pop(k), with k counted from 1
PopAt(s, k) == SubSeq(s, 1, k - 1) \o SubSeq(s, k + 1, Len(s))

\* the slot a signal is connected to, main.py 713-715
SlotOf(kind) ==
  CASE kind = "iterated" -> "updateUIinfo"
    [] kind = "statsupdated" -> "updatesettingsfromprocessor"
    [] kind = "terminated" -> "updateUIfinal"

\* main.py 614-666 and 679-717 below the cap: START on the tab at index k
TabStart(k) ==
  /\ k \in 1..Len(tabnumbers)
  /\ tabnumbers[k] <= UsedTabs
  /\ tabState[tabnumbers[k]] = "new"
  /\ ~AtCap(ActiveThreadCount)
  /\ InitiateProcessor(tabnumbers[k])
  /\ UNCHANGED <<audioWindowOpened, warnedTab, tabs, tempfiles, single>>

\* AudioProcessor.py 170 with 332, then 245: the worker of tab t emits
\* statsupdated first and iterated afterwards; the call is queued for the GUI thread
WorkerEmits(t) ==
  /\ tabState[t] = "running"
  /\ tabEmitted[t] < MaxTabEvents
  /\ Len(eventQueue) < MaxQueued
  /\ tabEmitted' = [tabEmitted EXCEPT ![t] = @ + 1]
  /\ eventQueue' = Append(eventQueue,
        [tab |-> t, kind |-> IF tabEmitted[t] = 0 THEN "statsupdated" ELSE "iterated"])
  /\ UNCHANGED <<tabState, tabProcessing, audioWindowOpened, warnedTab, tabnumbers, tempfiles, single>>

\* AudioProcessor.py 343-354 called from run(): terminated is emitted and run() returns
WorkerTerminates(t) ==
  /\ tabState[t] = "running"
  /\ Len(eventQueue) < MaxQueued
  /\ tabState' = [tabState EXCEPT ![t] = "ended"]
  /\ eventQueue' = Append(eventQueue, [tab |-> t, kind |-> "terminated"])
  /\ UNCHANGED <<tabProcessing, audioWindowOpened, warnedTab, tabnumbers, tabEmitted, tempfiles, single>>

\* main.py 1065-1087, closecurrenttab answered with Yes on the tab at index k:
\* the tab and its entries of alltabdata and tabnumbers are removed; the
\* processor of the tab is not touched
CloseCurrentTab(k) ==
  /\ k \in 1..Len(tabnumbers)
  /\ tabnumbers[k] <= UsedTabs
  /\ tabnumbers' = PopAt(tabnumbers, k)
  /\ UNCHANGED <<tabState, tabProcessing, audioWindowOpened, warnedTab, tabEmitted,
                 eventQueue, tempfiles, single>>

\* main.py 748-750, 545-547, 804-809: the GUI thread runs the slot of the oldest
\* queued signal; curtabnum = self.tabnumbers.index(tabID) raises ValueError
\* for an identifier that is not in the list, otherwise updateUIfinal clears
\* isprocessing
HandleEvent ==
  /\ eventQueue # << >>
  /\ eventQueue' = Tail(eventQueue)
  /\ LET e == Head(eventQueue) IN
       IF e.tab \in Range(tabnumbers)
         THEN /\ tabProcessing' = [tabProcessing EXCEPT ![e.tab] =
                    IF e.kind = "terminated" THEN FALSE ELSE @]
              /\ UNCHANGED unhandled
         ELSE /\ unhandled' = unhandled \cup {SlotOf(e.kind)}
              /\ UNCHANGED tabProcessing
  /\ UNCHANGED <<tabState, audioWindowOpened, warnedTab, tabnumbers, tabEmitted,
                 tempfiles, datasource, fileExists, lensignal, ctl, flags, userset, derived, res,
                 grid, wloc, cbloc, audiostream, now, sig, termCalls, midTrimRead,
                 settingsHist, caps>>

TabsNext ==
  \/ \E k \in 1..NumTabs : TabStart(k) \/ CloseCurrentTab(k)
  \/ \E t \in Tabs : WorkerEmits(t) \/ WorkerTerminates(t)
  \/ HandleEvent

SpecTabs == PoolInit /\ [][TabsNext]_vars

\* ------------------------------------------- the temporary directory
MaxRecId == 2       \* identifiers of the workers that open a recording

\* str.lower() on the characters used here
LowerChar(c) ==
  CASE c = "T" -> "t" [] c = "W" -> "w" [] c = "A" -> "a" [] c = "V" -> "v"
    [] OTHER -> c
Lower(s) == [k \in 1..Len(s) |-> LowerChar(s[k])]

\* main.py 1093-1096: len(cfile) >= 5, cfile[:4].lower() == 'temp' and
\* cfile[-3:].lower() == 'wav'
Sweeps(cfile) ==
  /\ Len(cfile) >= 5
  /\ Lower(SubSeq(cfile, 1, 4)) = <<"t", "e", "m", "p">>
  /\ Lower(SubSeq(cfile, Len(cfile) - 2, Len(cfile))) = <<"w", "a", "v">>

\* AudioProcessor.py 102-103, 137: the worker of tab id opens its recording
RecordingOpened(id) ==
  /\ WavFileName(id) \notin tempfiles
  /\ tempfiles' = tempfiles \cup {WavFileName(id)}
  /\ UNCHANGED <<tabState, tabProcessing, audioWindowOpened, warnedTab, tabs, single>>

\* another program, or the user, puts a file into the directory
OtherCreated(n) ==
  /\ n \in OtherNames \ tempfiles
  /\ tempfiles' = tempfiles \cup {n}
  /\ UNCHANGED <<tabState, tabProcessing, audioWindowOpened, warnedTab, tabs, single>>

\* main.py 1089-1097, cleantempfiles (called at 136 and 1146): every listed
\* name that passes the test is removed
CleanTempFiles ==
  /\ tempfiles' = { f \in tempfiles : ~Sweeps(f) }
  /\ UNCHANGED <<tabState, tabProcessing, audioWindowOpened, warnedTab, tabs, single>>

SweepNext ==
  \/ \E id \in 1..MaxRecId : RecordingOpened(id)
  \/ \E n \in OtherNames : OtherCreated(n)
  \/ CleanTempFiles

SpecSweep == PoolInit /\ [][SweepNext]_vars

\* ------------------------------------------------------- observations
Emissions(kind) == { k \in 1..Len(emitted) : emitted[k].ev.kind = kind }
TermCount == Cardinality(Emissions("terminated"))
\* run() has ended and no thread is inside terminate()
WorkerEnded == pc["worker"] \in {"done", "crashed"}
Settled == WorkerEnded /\ \A t \in Threads : ~InTerminate(t)
\* the derived settings that belong to one stored (fftwindow, alpha) pair
SettingsOf(s, psd) ==
  LET n == MakeEven(RoundN(s[1]))
  IN  /\ Len(psd.data) = n
      /\ psd.df = Ratio(Fs, n)
      /\ psd.bins = Masked([k \in 1..n |-> k - 1], KeepInd(n))
      /\ psd.taper = IF s[2] > 0 THEN Tukey(n, s[2]) ELSE NoTaper

\* ------------------------------ changethresholds called on its own
\* arguments a caller can pass to changethresholds: windows from below 0 to
\* above 1 s, cadences, alphas from below 0 to above 1
CalcArgs ==
  { <<w, d, a>> : w \in (-3)..(TicksPerSec + 1), d \in {0, 2},
                  a \in {-1, 0, 5, AlphaDen, AlphaDen + 1} }

\* a device worker as __init__ leaves it (lines 83-145), not yet started
CalcInit ==
  /\ datasource = "mic" /\ fileExists = TRUE /\ lensignal = 0
  /\ pc = [t \in Threads |-> IF t = "worker" THEN "unstarted" ELSE "idle"]
  /\ tsite = [t \in Threads |-> "none"]
  /\ cargs = [t \in Threads |-> <<0, 0, 0>>]
  /\ isrunning = TRUE /\ reason = 0 /\ fromAudio = FALSE
  /\ \E s \in InitArgs : fftwindow = s[1] /\ dt = s[2] /\ alpha = s[3]
  /\ N = 0 /\ df = NoDf /\ taper = NoTaper /\ taperlen = -1 /\ keepind = << >> /\ freqs = << >>
  /\ audiostream = [k \in 1..InitBufLen |-> 0]
  /\ wavfile = "open" /\ wavframes = 0 /\ stream = "none" /\ streamActive = FALSE
  /\ maxnum = 0 /\ griddt = 0
  /\ counts = 0 /\ i = -1 /\ curtime = 0 /\ ctime = 0 /\ pcmdata = NoData
  /\ ftaper = NoTaper /\ fdf = NoDf
  /\ nframes = 0 /\ returntype = "unbound"
  /\ now = 0
  /\ connected = [k \in {"iterated", "statsupdated", "terminated"} |-> FALSE]
  /\ isprocessing = FALSE
  /\ pendingFinal = 0 /\ emitted = << >>
  /\ termCalls = << >> /\ unhandled = {} /\ midTrimRead = FALSE /\ settingsHist = {}
  /\ cycles = 0 /\ callbacks = 0 /\ reconfs = 0 /\ aborts = 0
  /\ tabState = [t \in Tabs |-> "new"]
  /\ tabProcessing = [t \in Tabs |-> FALSE]
  /\ audioWindowOpened = FALSE /\ warnedTab = 0
  /\ tabnumbers = [k \in 1..NumTabs |-> k] /\ eventQueue = << >>
  /\ tabEmitted = [t \in Tabs |-> 0]
  /\ tempfiles = {WavFileName(1)}

\* lines 311-313: changethresholds_slot(fftwindow, dt, alpha) with any arguments
CallChangeThresholds ==
  /\ pc["gui"] = "idle"
  /\ reconfs < MaxCalcCalls
  /\ reconfs' = reconfs + 1
  /\ \E a \in CalcArgs : cargs' = [cargs EXCEPT !["gui"] = a]
  /\ Goto("gui", "ct_set")
  /\ UNCHANGED <<scen, tsite, flags, userset, derived, res, grid, wloc, cbloc, audiostream,
                 now, sig, ghost, cycles, callbacks, aborts>>

CalcNext == CallChangeThresholds \/ ChangeThresholds("gui")

SpecCalc == CalcInit /\ [][CalcNext]_vars

\* the last call of changethresholds has returned or raised
CalcReturned == pc["gui"] = "idle" /\ reconfs > 0

\* ------------------------------------------- the values of a spectrum
\* scipy.signal.tukey(M, alpha) for the tapers whose cosine flanks are one
\* sample wide (0 < alpha*(M-1) < 2): 0, 1, ..., 1, 0; a taper of length 1 is 1;
\* without a taper the window is left as it is
TukeyWeights(tp, len) ==
  IF tp = NoTaper THEN [k \in 1..len |-> 1]
  ELSE IF tp.len <= 1 THEN [k \in 1..tp.len |-> 1]
  ELSE [k \in 1..tp.len |-> IF k = 1 \/ k = tp.len THEN 0 ELSE 1]

\* line 272: pcmdata*self.taper, with numpy broadcasting
Tapered(data, tp) ==
  LET w == TukeyWeights(tp, Len(data))
      len == BroadcastLen(Len(data), Len(w))
  IN  [k \in 1..len |-> (IF Len(data) = 1 THEN data[1] ELSE data[k])
                        * (IF Len(w) = 1 THEN w[1] ELSE w[k])]

\* exp(-2*pi*i*e/4) for e = 0..3: real and imaginary part
Cos4(e) == <<1, 0, -1, 0>>[e + 1]
Sin4(e) == <<0, -1, 0, 1>>[e + 1]

RECURSIVE SeqSum(_)
SeqSum(s) == IF s = << >> THEN 0 ELSE Head(s) + SeqSum(Tail(s))

\* a transform that takes bin 0 whatever bin is asked for
DftPowerDC(x, n) ==
  SeqSum(x) * SeqSum(x)

\* line 275: np.abs(np.fft.fft(x)**2)[n], exact for the lengths 1, 2 and 4,
\* whose roots of unity are 1, -1, i and -i
DftPower(x, n) ==
  LET step == 4 \div Len(x)
      re == SeqSum([k \in 1..Len(x) |-> x[k] * Cos4((n * (k - 1) * step) % 4)])
      im == SeqSum([k \in 1..Len(x) |-> x[k] * Sin4((n * (k - 1) * step) % 4)])
  IN  re * re + im * im

\* lines 275 and 279: the power in every kept bin of a returned spectrum; the
\* value returned is log10(power/df), which has its maxima where the power has
PsdPower(psd) ==
  [j \in 1..Len(psd.bins) |-> DftPower(Tapered(psd.data, psd.taper), psd.bins[j])]
\* positions of the largest value of a returned spectrum
MaxBins(psd) ==
  { j \in 1..Len(psd.bins) : \A m \in 1..Len(psd.bins) : PsdPower(psd)[m] <= PsdPower(psd)[j] }

\* windows of 4 samples of a pure sinusoid of frequency (num/den)*fs: at fs/4
\* the samples satisfy x[k+2] = -x[k], at fs/3 they repeat after 3 samples and
\* add up to 0 over a period, at fs/6 x[k+3] = -x[k] and x[k+2] = x[k+1] - x[k]
SineWindows ==
  { [num |-> 1, den |-> 4, x |-> <<1, 0, -1, 0>>],
    [num |-> 1, den |-> 4, x |-> <<1, 1, -1, -1>>],
    [num |-> 1, den |-> 3, x |-> <<0, 1, -1, 0>>],
    [num |-> 1, den |-> 3, x |-> <<-2, 1, 1, -2>>],
    [num |-> 1, den |-> 6, x |-> <<0, 1, 1, 0>>],
    [num |-> 1, den |-> 6, x |-> <<2, 1, -1, -2>>] }

\* ------------------------------------------ dofft called on its own
MaxFftCalls == 3    \* cap on the calls of dofft
MaxWindowLen == 4   \* longest sample window handed to dofft

\* settings the constructor can be given: windows of 0.4 s and 0.8 s, without
\* and with a taper
FftArgs == { <<w, 1, a>> : w \in {4, 8}, a \in {0, 5} }
\* the sample windows handed to dofft: silence of every length up to
\* MaxWindowLen, and the sinusoids
FftWindows == { [k \in 1..L |-> 0] : L \in 1..MaxWindowLen } \cup { s.x : s \in SineWindows }

\* line 170: run() stores the settings of the constructor (lines 92-94)
FftSetup ==
  /\ pc["worker"] = "unstarted"
  /\ \E a \in FftArgs : cargs' = [cargs EXCEPT !["worker"] = a]
  /\ Goto("worker", "ct_set")
  /\ UNCHANGED <<scen, tsite, flags, userset, derived, res, grid, wloc, cbloc, audiostream,
                 now, sig, ghost, caps>>

\* line 244: spectra = self.dofft(pcmdata), with any window, once the settings
\* are stored and the call before it has returned or raised
DofftCall ==
  /\ pc["worker"] \in {"run_src", "loop_test", "loop_pace", "exc_flag"}
  /\ cycles < MaxFftCalls
  /\ cycles' = cycles + 1
  /\ i' = NextIndex(i)
  /\ ftaper' = NoTaper /\ fdf' = NoDf
  /\ \E w \in FftWindows : pcmdata' = w /\ Goto("worker", AfterRead(w))
  /\ UNCHANGED <<scen, tsite, cargs, flags, userset, derived, res, grid, counts, curtime, ctime,
                 cbloc, audiostream, now, sig, ghost, callbacks, reconfs, aborts>>

FftNext ==
  \/ FftSetup \/ ChangeThresholds("worker")
  \/ DofftCall \/ FftTaper \/ FftSpectrumEmit

SpecFft == CalcInit /\ [][FftNext]_vars

\* the worker is inside dofft
InDofft == pc["worker"] \in {"fft_taper", "fft_df"}

\* --------------------------------------- a file worker, run to its end
\* a worker on an existing file
LiveInit == Init /\ datasource = "file" /\ fileExists

\* the steps of run() on a file source: the pool thread executes them one after
\* the other without waiting for anything but its own sleeps
LiveWorker ==
  \/ RunWait \/ RunCheck \/ RunGrid
  \/ LoopCycle \/ LoopExit \/ FftTaper \/ FftSpectrumEmit \/ LoopExcept
  \/ TermSet("worker") \/ TermWav("worker") \/ TermEmit("worker")
  \/ ChangeThresholds("worker")

\* the steps of the GUI thread: construction, start, and the event loop
LiveGui ==
  \/ CtorSource \/ CtorCopy \/ CtorDone
  \/ PoolStart \/ ConnectSlots
  \/ Deliver \/ StopProcessor \/ StopDone \/ UpdateSettings
  \/ TermSet("gui") \/ TermWav("gui") \/ TermEmit("gui")
  \/ ChangeThresholds("gui")

LiveNext == LiveWorker \/ LiveGui

\* the pool thread keeps running run() while it has a step to take
SpecLive == LiveInit /\ [][LiveNext]_vars /\ WF_vars(LiveWorker)

\* ----------------------------------- the pacing wait of a device worker
MaxPaceDt == 3      \* longest cadence of the pacing wait, in ticks

\* settings with every cadence from 0 to MaxPaceDt ticks
PaceArgs == { <<4, d, 0>> : d \in 0..MaxPaceDt }

\* line 170: run() stores the settings of a constructor that was given the
\* longest cadence (lines 92-94)
PaceSetup ==
  /\ pc["worker"] = "unstarted"
  /\ cargs' = [cargs EXCEPT !["worker"] = <<4, MaxPaceDt, 0>>]
  /\ Goto("worker", "ct_set")
  /\ UNCHANGED <<scen, tsite, flags, userset, derived, res, grid, wloc, cbloc, audiostream,
                 now, sig, ghost, caps>>

\* lines 311-313: the user changes the cadence while the worker runs
PaceUpdate ==
  /\ pc["gui"] = "idle"
  /\ pc["worker"] # "unstarted"
  /\ reconfs < MaxReconf
  /\ reconfs' = reconfs + 1
  /\ \E a \in PaceArgs : cargs' = [cargs EXCEPT !["gui"] = a]
  /\ Goto("gui", "ct_set")
  /\ UNCHANGED <<scen, tsite, flags, userset, derived, res, grid, wloc, cbloc, audiostream,
                 now, sig, ghost, cycles, callbacks, aborts>>

PaceNext ==
  \/ PaceSetup \/ ChangeThresholds("worker")
  \/ PaceUpdate \/ ChangeThresholds("gui")
  \/ RunOpen \/ TermSet("worker") \/ TermWav("worker") \/ TermStream("worker")
  \/ LoopCycle \/ FftSpectrumEmit \/ LoopPace

SpecPace == CalcInit /\ [][PaceNext]_vars

\* ------------------------------------------------------------- claims

\* C1: once the terminated notification has been emitted for a worker, no
\* iterated (record) event is emitted for that worker afterwards.
C1_NoRecordAfterTerminated ==
  \A j, k \in 1..Len(emitted) :
    (j < k /\ emitted[j].ev.kind = "terminated") => emitted[k].ev.kind # "iterated"

\* C2: over the lifetime of one worker the terminated signal is emitted exactly
\* once: never twice, and never zero times once run() has ended and every
\* terminate() call has finished.
C2_TerminatedExactlyOnce ==
  /\ TermCount <= 1
  /\ Settled => TermCount = 1

\* C3: the termination reason is written at most once: after the first call of
\* terminate(r) the field reason keeps the value r.
C3_FirstReasonWins ==
  termCalls # << >> => reason = termCalls[1]

\* C4: every emitted record was computed from one consistent set of derived
\* settings: its window length, df, taper and keep-mask all belong to the same
\* settings stored by changethresholds.
C4_ConsistentSettings ==
  \A k \in Emissions("iterated") :
    \E s \in settingsHist : SettingsOf(s, emitted[k].ev.psd)

\* C5: the loop's read of the tail of the rolling buffer never happens between
\* the callback's extend and its delete.
C5_NoReadMidTrim == ~midTrimRead

\* C6: after every completed invocation of the device callback the rolling
\* buffer has the length it was created with.
C6_BufferLengthKept ==
  (datasource = "mic" /\ callbacks > 0 /\ pc["cb"] = "idle") => Len(audiostream) = InitBufLen

C8_MissingFileReported ==
  (datasource = "file" /\ ~fileExists /\ ~InCtor("gui")) =>
     /\ \E k \in Emissions("terminated") : emitted[k].ev.reason = 1 /\ emitted[k].conn
     /\ Emissions("iterated") = {}
     /\ "__init__" \notin unhandled

C10_OpenFailureReported ==
  (tsite["worker"] = "run_open" /\ ~InTerminate("worker")) =>
     /\ \E k \in Emissions("terminated") : emitted[k].ev.reason = 2
     /\ Emissions("iterated") = {}
     /\ "run" \notin unhandled

\* ------------------------------------------------------------ C11
\* the record at position e of the log of emissions
RecordAt(e) == emitted[e].ev
\* the indices of the emitted records
RecordIndices == { RecordAt(e).i : e \in Emissions("iterated") }
\* the window of a file record is the 2*int(N/2) samples centred on its grid
\* time and lies inside the file (lines 230-234)
WindowInFile(r) ==
  LET ctrind == Round(r.ctime * Fs, TicksPerSec)
      half == Len(r.psd.data) \div 2
  IN  /\ Len(r.psd.data) = 2 * half
      /\ ctrind - half >= 0
      /\ ctrind + half < lensignal
      /\ r.psd.data = [j \in 1..(2 * half) |-> ctrind - half + j]

C12_NoRecordBeforeSamples ==
  (datasource = "mic" /\ callbacks = 0) =>
    /\ Emissions("iterated") = {}
    /\ \A k \in 1..Len(termCalls) : termCalls[k] # 4

\* ------------------------------------------------------------ C13
\* C13 as stated: after an execution of calc_settings with fs > 0 and
\* fftwindow > 0, N is round(fs*fftwindow) raised by 1 when odd, N is even and
\* df*N = fs exactly.
C13_CalcSettings ==
  (CalcReturned /\ fftwindow > 0) =>
    LET r == Round(Fs * fftwindow, TicksPerSec)
    IN  /\ N = (IF r % 2 = 1 THEN r + 1 ELSE r)
        /\ N % 2 = 0
        /\ df.den # 0
        /\ df.num * N = Fs * df.den

\* C13 amended: N is round(fs*fftwindow) raised by 1 when odd, and even; when
\* the product rounds to 1 or more, N is at least 2 and df is the quotient fs/N
\* of line 300; when it rounds to 0, N is 0 and df keeps the value it had.
C13_CalcSettingsFromOne ==
  (CalcReturned /\ fftwindow > 0) =>
    LET r == Round(Fs * fftwindow, TicksPerSec)
    IN  /\ N = (IF r % 2 = 1 THEN r + 1 ELSE r)
        /\ N % 2 = 0
        /\ r >= 1 => (N >= 2 /\ df = Ratio(Fs, N))
        /\ r = 0 => (N = 0 /\ (reconfs = 1 => df = NoDf))

C13_Witness ==
  /\ CalcReturned /\ fftwindow > 0
  /\ Round(Fs * fftwindow, TicksPerSec) % 2 = 1
  /\ N = Round(Fs * fftwindow, TicksPerSec) + 1
  /\ df = Ratio(Fs, N)

\* ------------------------------------------------------------ C14
\* C14: after any call changethresholds(fftwindow, dt, alpha) the stored
\* fftwindow lies in (0, 1], the stored alpha in [0, 1], and the stored dt is the
\* argument.
C14_StoredSettingsClamped ==
  CalcReturned =>
    /\ fftwindow > 0 /\ fftwindow <= TicksPerSec
    /\ alpha >= 0 /\ alpha <= AlphaDen
    /\ dt = cargs["gui"][2]

\* ------------------------------------------------------------ C15
\* C15: no exception leaves updateaudiobuffer, every invocation that has
\* returned gave PortAudio paContinue or paAbort, and an invocation that met a
\* fault called terminate(5) and returned paAbort.
C15_CallbackContained ==
  /\ "updateaudiobuffer" \notin unhandled
  /\ (pc["cb"] = "idle" /\ callbacks > 0) =>
       /\ returntype \in {"continue", "abort"}
       /\ tsite["cb"] = "cb_exc" => returntype = "abort"

\* ------------------------------------------------------------ C16
\* C16: once an exception raised inside a cycle has been handled (lines
\* 255-257), terminated has been emitted with reason 4 to a connected sink and
\* run() has ended without an exception of its own.
C16_LoopFaultReported ==
  (tsite["worker"] = "run_exc" /\ ~InTerminate("worker")) =>
    /\ \E e \in Emissions("terminated") : emitted[e].ev.reason = 4 /\ emitted[e].conn
    /\ pc["worker"] = "done"
    /\ "run" \notin unhandled

\* ------------------------------------------------------------ C17
\* C17: when a device worker has been terminated (terminate was called, run()
\* has ended and no terminate() is still in progress), the recording file is
\* closed and the input stream is not open.
C17_ResourcesReleased ==
  (datasource = "mic" /\ termCalls # << >> /\ Settled) =>
    /\ wavfile = "closed"
    /\ stream # "open"
    /\ ~streamActive

\* ------------------------------------------------------------ C18
\* C18: abort() never raises, whatever the state of the stream and the file,
\* and a terminate() after the first one changes neither the stored reason nor
\* the number of terminated notifications.
C18_IdempotentShutdown ==
  /\ "abort" \notin unhandled
  /\ Len(termCalls) >= 2 =>
       /\ reason = termCalls[1]
       /\ Cardinality(Emissions("terminated")) <= 1

\* ------------------------------------------------------------ C19
\* the statsupdated emission that precedes position k most closely (0 if none)
LastStatsBefore(k) ==
  LET before == { j \in Emissions("statsupdated") : j < k }
  IN  IF before = {} THEN 0 ELSE CHOOSE j \in before : \A m \in before : m <= j

\* C19: every record is emitted after a statsupdated event, and its psd has as
\* many values as the frequencies array of the last statsupdated emitted before
\* it.
C19_RecordMatchesPublished ==
  \A k \in Emissions("iterated") :
    /\ LastStatsBefore(k) # 0
    /\ Len(emitted[k].ev.psd.bins) = Len(emitted[LastStatsBefore(k)].ev.freqs)

\* ------------------------------------------------------------ C20
\* C20: never more than MaxThreadCount workers run; while the pool is at its
\* cap no step takes a tab out of the state "new" or changes its isprocessing
\* flag, and the step that posts the pool-full warning is taken at the cap and
\* changes no tab at all; and whenever a thread is free a start request of a
\* new tab can put a worker to run.
C20_PoolCap ==
  /\ [](ActiveThreadCount <= MaxThreadCount)
  /\ [][ActiveThreadCount >= MaxThreadCount =>
          \A t \in Tabs : tabState[t] = "new" =>
             (tabState'[t] = "new" /\ tabProcessing'[t] = tabProcessing[t])]_vars
  /\ [][warnedTab' # warnedTab =>
          /\ ActiveThreadCount >= MaxThreadCount
          /\ tabState' = tabState /\ tabProcessing' = tabProcessing]_vars
  /\ []((ActiveThreadCount < MaxThreadCount /\ \E t \in Tabs : tabState[t] = "new") =>
          ENABLED (\E t \in Tabs : StartProcessor(t) /\ tabState'[t] = "running"))

\* a tab whose start request was refused runs a worker later
C20_Witness == warnedTab # 0 /\ tabState[warnedTab] = "running"

\* ------------------------------------------------------------ C21
\* C21: dofft is deterministic and free of side effects: no step of dofft
\* changes taper, taperlen, N, df, keepind or alpha; two calls on the same window
\* that both return give the same spectrum; and a call never raises on a window
\* for which an earlier call returned a spectrum.
C21_DofftPure ==
  /\ [][InDofft => UNCHANGED <<taper, taperlen, N, df, keepind, alpha>>]_vars
  /\ [](\A e, f \in Emissions("iterated") :
          RecordAt(e).psd.data = RecordAt(f).psd.data => RecordAt(e).psd = RecordAt(f).psd)
  /\ [](pc["worker"] = "exc_flag" =>
          \A e \in Emissions("iterated") : RecordAt(e).psd.data # pcmdata)

\* ------------------------------------------------------------ C22
\* bin n of a spectrum with resolution df lies within one df of (num/den)*fs
WithinOneDf(s, n, d) ==
  LET diff == s.num * Fs * d.den - n * d.num * s.den
  IN  diff <= d.num * s.den /\ -diff <= d.num * s.den

C23_NoWindowTerminates ==
  [][(fromAudio /\ pc["worker"] = "loop_test" /\ cycles' = cycles + 1 /\ pcmdata' = NoData) =>
        /\ pc'["worker"] = "term_set"
        /\ tsite'["worker"] = "run_exhaust"
        /\ emitted' = emitted]_vars

\* ------------------------------------------------------------ C24
\* C24: a file worker that has entered its loop with dt > 0 eventually is
\* terminated with reason 0 after its index has reached the grid length, unless
\* it is aborted; and once the grid is computed no step changes it.
C24_FileWorkerFinishes ==
  /\ (fromAudio /\ pc["worker"] = "loop_test" /\ griddt > 0) ~>
        (aborts > 0 \/ (/\ pc["worker"] = "done" /\ reason = 0 /\ i = maxnum
                        /\ \E e \in Emissions("terminated") : RecordAt(e).reason = 0))
  /\ [][pc["worker"] \notin {"unstarted", "run_wait", "run_chk", "ct_set", "cs_N", "cs_df",
                              "cs_keep", "cs_emit", "run_src"} =>
          (maxnum' = maxnum /\ griddt' = griddt)]_vars

\* ------------------------------------------------------------ C25
\* C25: the read of a cycle of a file source at centre index c = round(ctime*fs)
\* yields the N samples with indices c - N/2 .. c + N/2 - 1 when that range lies
\* inside 0 .. lensignal - 1, and no window otherwise.
C25_WindowIffInside ==
  [][(fromAudio /\ pc["worker"] = "loop_test" /\ cycles' = cycles + 1 /\ i' < maxnum) =>
        LET c == Round(ctime' * Fs, TicksPerSec)
            h == N \div 2
        IN  IF c - h >= 0 /\ c + h - 1 <= lensignal - 1
              THEN pcmdata' = [j \in 1..N |-> c - h + j]
              ELSE pcmdata' = NoData]_vars

\* ------------------------------------------------------------ C26
\* the bin numbers lo, lo + 1, ..., hi in order
BinRange(lo, hi) == [j \in 1..(hi - lo + 1) |-> lo + j - 1]

\* C26 as stated: every returned spectrum has one value for each bin 0..N/2
\* (N/2 + 1 values) in bin order, and the published frequencies are those of the
\* same bins.
C26_BinsToNyquist ==
  \A e \in Emissions("iterated") :
    /\ RecordAt(e).psd.bins = BinRange(0, N \div 2)
    /\ freqs = RecordAt(e).psd.bins
    /\ RecordAt(LastStatsBefore(e)).freqs = RecordAt(e).psd.bins

\* C26 amended: with the settings unchanged since calc_settings, every returned
\* spectrum has one value for each bin 0..N/2 - 1 (N/2 values) in bin order, and
\* the frequencies stored and published by calc_settings are those of the same
\* bins (in units of df).
C26_BinsBelowNyquist ==
  \A e \in Emissions("iterated") :
    /\ RecordAt(e).psd.bins = BinRange(0, N \div 2 - 1)
    /\ Len(RecordAt(e).psd.bins) = N \div 2
    /\ freqs = RecordAt(e).psd.bins
    /\ RecordAt(LastStatsBefore(e)).freqs = RecordAt(e).psd.bins

\* a spectrum of a window of N = 4 samples has been returned
C26_Witness ==
  \E e \in Emissions("iterated") :
    N = 4 /\ Len(RecordAt(e).psd.data) = 4 /\ RecordAt(e).psd.bins = <<0, 1>>

\* ------------------------------------------------------------ C27
\* lines 276 and 279: only infinite values of power/df are replaced by 1.0E-8,
\* which a finite power never is; log10 then gives -inf where the power is 0
NegInfBins(psd) == { j \in 1..Len(psd.bins) : PsdPower(psd)[j] = 0 }

\* C27: no value of a returned spectrum is minus infinity, whatever the window,
\* a window of zeros included.
C27_NoNegativeInfinity ==
  \A e \in Emissions("iterated") : NegInfBins(RecordAt(e).psd) = {}

\* ------------------------------------------------------------ C28
\* C28: the startup wait polls at most 101 times; when it times out the worker
\* is terminated with reason 3, the sink is notified, and run() returns without
\* having computed settings, opened a stream or run a cycle.
C28_InitTimeout ==
  /\ counts <= MaxPolls + 1
  /\ (tsite["worker"] = "run_timeout" /\ ~InTerminate("worker")) =>
       /\ \E k \in 1..Len(termCalls) : termCalls[k] = 3
       /\ \E e \in Emissions("terminated") : RecordAt(e).reason = 3
       /\ pc["worker"] = "done"
       /\ "run" \notin unhandled
       /\ Emissions("statsupdated") = {} /\ N = 0
       /\ stream = "none" /\ cycles = 0

\* ------------------------------------------------------------ C29
\* C29: when abort() has run before run() made its first test of isrunning (the
\* startup wait then finds isrunning False: counts > 0), run() emits no record
\* and no second terminated notification, the reason stays 0 and terminate(3) is
\* never called, run() returns, and the abort itself raised nothing.
C29_AbortBeforeStart ==
  counts > 0 =>
    /\ Emissions("iterated") = {}
    /\ TermCount <= 1
    /\ reason = 0
    /\ \A k \in 1..Len(termCalls) : termCalls[k] # 3
    /\ pc["worker"] # "crashed"
    /\ "abort" \notin unhandled

\* ------------------------------------------------------------ C30
\* the worker is inside a cycle: in dofft or in the pacing wait
InCycle == pc["worker"] \in {"fft_taper", "fft_df", "loop_pace"}
\* the steps of a cycle in progress
CycleStep == FftTaper \/ FftSpectrumEmit \/ LoopPace

C31_AbortEndsPacing ==
  [][(~fromAudio /\ ~isrunning /\ pc["worker"] = "loop_pace" /\ now' # now) =>
        pc'["worker"] # "loop_pace"]_vars

\* ------------------------------------------------------------ C32
\* C32: the step that ends a cycle of a device worker finds at least the
\* cadence dt of that moment elapsed since the cycle read the clock; a poll at
\* which that much time has elapsed ends the wait; and the clock reading is
\* replaced only when a cycle starts, which happens only at the loop test.
C32_CadenceKept ==
  /\ [][(~fromAudio /\ pc["worker"] \in {"fft_taper", "fft_df", "loop_pace"}
                    /\ pc'["worker"] = "loop_test") => now' - curtime' >= dt']_vars
  /\ [][(~fromAudio /\ pc["worker"] = "loop_pace" /\ now' # now /\ now' - curtime >= dt) =>
          pc'["worker"] = "loop_test"]_vars
  /\ [][i' # i => pc["worker"] = "loop_test"]_vars
  /\ [][curtime' # curtime => i' # i]_vars

\* the cadence was lowered during the wait, and the wait has ended at the
\* lowered cadence, before the cadence it started with had elapsed
C32_Witness ==
  /\ pc["worker"] = "loop_test" /\ cycles > 0 /\ reconfs > 0 /\ pc["gui"] = "idle"
  /\ dt > 0 /\ dt < MaxPaceDt
  /\ now - curtime = dt

\* ------------------------------------------------------------ C33
\* C33: an invocation of the callback that finds the stop flag set returns
\* paAbort at once and changes neither the rolling buffer nor the recording
\* file; an invocation that found isrunning True and ends without a fault
\* returns paContinue and has appended the 2*nframes delivered bytes to the
\* recording file; nothing else writes to that file.
C33_CallbackEffects ==
  /\ [][(pc["cb"] = "idle" /\ callbacks' = callbacks + 1 /\ ~isrunning) =>
          /\ returntype' = "abort" /\ pc'["cb"] = "idle"
          /\ audiostream' = audiostream
          /\ wavframes' = wavframes /\ wavfile' = wavfile]_vars
  /\ [][(pc["cb"] = "idle" /\ callbacks' = callbacks + 1 /\ isrunning) =>
          /\ pc'["cb"] = "cb_del"
          /\ wavframes' = wavframes]_vars
  /\ [][(pc["cb"] = "cb_del" /\ pc'["cb"] = "idle") =>
          /\ returntype' = "continue"
          /\ wavframes' = wavframes + 2 * nframes]_vars
  /\ [][wavframes' # wavframes => (pc["cb"] = "cb_del" /\ pc'["cb"] = "idle")]_vars

\* an invocation has returned paContinue after writing its bytes
C33_Witness ==
  /\ callbacks > 0 /\ pc["cb"] = "idle" /\ returntype = "continue"
  /\ nframes > 0 /\ wavframes = 2 * nframes

\* ------------------------------------------------------------ C34
\* C34: the callback never reaches its writeframes call with the recording
\* file already closed by terminate(), and terminate is never called with
\* reason 5 (callback fault).
C34_NoWriteAfterClose ==
  /\ ~(pc["cb"] = "cb_del" /\ wavfile # "open")
  /\ \A k \in 1..Len(termCalls) : termCalls[k] # 5

\* ------------------------------------------------------------ C35
\* C35: every record that reaches the sink is preceded by a statsupdated event
\* that reached the sink, and no statsupdated event is emitted while the slot
\* updatesettingsfromprocessor is still unconnected.
C35_SettingsBeforeRecords ==
  /\ \A k \in Emissions("iterated") :
       emitted[k].conn =>
         \E j \in Emissions("statsupdated") : j < k /\ emitted[j].conn
  /\ \A j \in Emissions("statsupdated") : emitted[j].conn

\* ------------------------------------------------------------ C36
\* C36: a tab whose start request was refused at the cap leaves the state
\* "new" (its worker is started or queued) once running workers have ended.
C36_RefusedTabStarts ==
  (warnedTab # 0 /\ tabState[warnedTab] = "new") ~>
     (warnedTab # 0 /\ tabState[warnedTab] # "new")

\* ------------------------------------------------------------ C37
\* C37: every queued signal the GUI thread handles carries the identifier of a
\* tab that is in tabnumbers at that moment, and no slot fails on a missing
\* identifier.
C37_EventsOfOpenTabs ==
  /\ [][Len(eventQueue') < Len(eventQueue) =>
          Head(eventQueue).tab \in Range(tabnumbers)]_vars
  /\ [](unhandled = {})

\* ------------------------------------------------------------ C38
\* C38: every file a step removes from the temporary directory is named
\* tempwav_<identifier>.WAV.
C38_SweepOnlyRecordings ==
  [][\A f \in tempfiles \ tempfiles' :
        \E id \in 1..MaxRecId : f = WavFileName(id)]_vars

\* ------------------------------------------------------------ C39
\* C39: the taper dofft multiplies a window by has the length of that window
\* and the current alpha; and when calc_settings (alpha > 0) or the taper step
\* of dofft is done, taperlen is the length of the cached taper.
C39_TaperCacheCoherent ==
  /\ []((pc["worker"] = "fft_df" /\ alpha > 0 /\ ftaper # NoTaper) =>
          (ftaper.len = Len(pcmdata) /\ ftaper.alpha = alpha))
  /\ [][(pc["worker"] = "fft_taper" /\ pc'["worker"] = "fft_df") =>
          taperlen' = taper'.len]_vars
  /\ [][(pc["worker"] = "cs_N" /\ pc'["worker"] = "cs_df" /\ alpha > 0) =>
          taperlen' = taper'.len]_vars
====
